---- MODULE Spec2Model ----
(***************************************************************************)
(* Model of the Regency fan remote decoder, src/devices/regency_fan.c.     *)
(*                                                                         *)
(* regency_fan_decode receives a bitbuffer (a batch of bit rows, each with *)
(* its bit count) and the decoder's verbosity.  It inverts the bitbuffer,  *)
(* then walks the rows: rows of the wrong length and rows whose nibble sum *)
(* fails are skipped, the others are split into command, channel and value *)
(* and handed to the output as one record.                                 *)
(*                                                                         *)
(* A bit row is a sequence of 0/1 whose length is bits_per_row; a byte is  *)
(* an integer in 0..255; the records handed to decoder_output_data are     *)
(* collected, in order, in the variable out.                               *)
(***************************************************************************)
EXTENDS Integers, Sequences, FiniteSets, TLC

\* ------------------------------------------------------------------------
\* Program constants
\* ------------------------------------------------------------------------
NUM_BITS == 20
NUM_BYTES == 3

CMD_CHAN_BYTE == 0
VALUE_BYTE == 1
SUM_BYTE == 2

CMD_STOP == 1
CMD_FAN_SPEED == 2
CMD_LIGHT_INT == 4
CMD_LIGHT_DELAY == 5
CMD_FAN_DIR == 6

command_names ==
    << "invalid", "fan_speed", "fan_speed", "invalid",
       "light_intensity", "light_delay", "fan_direction", "invalid",
       "invalid", "invalid", "invalid", "invalid",
       "invalid", "invalid", "invalid", "invalid" >>

output_fields ==
    << "model", "device_id", "device_id_hex", "counter", "counter_hex",
       "id_bits", "button_pressed" >>

\* ------------------------------------------------------------------------
\* Bounds of the model
\* ------------------------------------------------------------------------
MaxRows == 2        \* rows per batch
MaxVerbose == 2     \* decoder->verbose ranges over 0..MaxVerbose

\* ------------------------------------------------------------------------
\* Byte arithmetic
\* ------------------------------------------------------------------------
Pow2(n) == IF n = 0 THEN 1 ELSE
           IF n = 1 THEN 2 ELSE
           IF n = 2 THEN 4 ELSE
           IF n = 3 THEN 8 ELSE
           IF n = 4 THEN 16 ELSE
           IF n = 5 THEN 32 ELSE
           IF n = 6 THEN 64 ELSE 128

\* bit j (0 = least significant) of byte x
BitOf(x, j) == (x \div Pow2(j)) % 2

\* ------------------------------------------------------------------------
\* Library routines the decoder calls (bitbuffer.c, util.c)
\* ------------------------------------------------------------------------

\* bitbuffer_invert: every bit of every row is complemented, in place
bitbuffer_invert(bb) ==
    [i \in DOMAIN bb |-> [j \in DOMAIN bb[i] |-> 1 - bb[i][j]]]

\* bit at 0-based position p of a row, 0 beyond its end (unused bits are clear)
RowBit(row, p) == IF p + 1 <= Len(row) THEN row[p + 1] ELSE 0

\* byte k (0-based) of the first len bits of the row, packed
\* most-significant-bit first, the bits after len cleared
PackedByte(row, len, k) ==
    LET B(j) == IF 8 * k + j < len THEN RowBit(row, 8 * k + j) ELSE 0
    IN  128 * B(0) + 64 * B(1) + 32 * B(2) + 16 * B(3)
        + 8 * B(4) + 4 * B(5) + 2 * B(6) + B(7)

RECURSIVE PackedFrom(_, _, _)
PackedFrom(row, len, k) ==
    IF 8 * k >= len THEN << >>
    ELSE << PackedByte(row, len, k) >> \o PackedFrom(row, len, k + 1)

\* bitbuffer_extract_bytes(bitbuffer, row, 0, out, len): the (len + 7) / 8
\* bytes that hold the first len bits of the row
bitbuffer_extract_bytes(row, len) == PackedFrom(row, len, 0)

\* bit 0 becomes bit 7 and so on
Reflected(x) ==
    128 * BitOf(x, 0) + 64 * BitOf(x, 1) + 32 * BitOf(x, 2) + 16 * BitOf(x, 3)
    + 8 * BitOf(x, 4) + 4 * BitOf(x, 5) + 2 * BitOf(x, 6) + BitOf(x, 7)

ReflectTable == [x \in 0..255 |-> Reflected(x)]

\* reflect8(x)
reflect8(x) == ReflectTable[x]

\* reflect_bytes(bytes, n): reflect8 on each of the first n bytes
RECURSIVE reflect_bytes(_, _)
reflect_bytes(bytes, n) ==
    IF n = 0 THEN bytes
    ELSE [reflect_bytes(bytes, n - 1) EXCEPT ![n] = reflect8(bytes[n])]

\* add_nibbles(bytes, n): sum of the high and low nibbles of the first n bytes
RECURSIVE add_nibbles(_, _)
add_nibbles(bytes, n) ==
    IF n = 0 THEN 0
    ELSE add_nibbles(bytes, n - 1) + (bytes[n] \div 16) + (bytes[n] % 16)

\* ------------------------------------------------------------------------
\* The body of the row loop of regency_fan_decode
\* ------------------------------------------------------------------------

\* variant: the call of reflect_bytes is missing
FrameBytesNotReflected(row) == bitbuffer_extract_bytes(row, NUM_BITS)

\* uint8_t bytes[NUM_BYTES]; extract NUM_BITS bits; reflect_bytes
FrameBytes(row) ==
    reflect_bytes(bitbuffer_extract_bytes(row, NUM_BITS), NUM_BYTES)

\* variant: the sum is not masked to four bits
checksumNotMasked(bytes) == add_nibbles(bytes, 2)

\* int checksum = add_nibbles(bytes, 2) & 0x0f
checksum(bytes) == add_nibbles(bytes, 2) % 16

\* variant: the sum is compared with the value byte instead of the sum byte
ChecksumOkValueByte(bytes) == checksum(bytes) = bytes[VALUE_BYTE + 1]

\* the row passes unless checksum != bytes[SUM_BYTE]
ChecksumOk(bytes) == checksum(bytes) = bytes[SUM_BYTE + 1]

\* uint8_t command = bytes[CMD_CHAN_BYTE] >> 4
command(bytes) == bytes[CMD_CHAN_BYTE + 1] \div 16

\* variant: the low nibble is taken without the complement
channelNotComplemented(bytes) == bytes[CMD_CHAN_BYTE + 1] % 16

\* uint8_t channel = ~bytes[CMD_CHAN_BYTE] & 0x0f
channel(bytes) == (255 - bytes[CMD_CHAN_BYTE + 1]) % 16

\* uint32_t value = bytes[VALUE_BYTE]
value(bytes) == bytes[VALUE_BYTE + 1]

\* one decimal digit as printed by %d
Digit(d) ==
    CASE d = 0 -> "0" [] d = 1 -> "1" [] d = 2 -> "2" [] d = 3 -> "3"
      [] d = 4 -> "4" [] d = 5 -> "5" [] d = 6 -> "6" [] d = 7 -> "7"
      [] d = 8 -> "8" [] OTHER -> "9"

\* sprintf("%d", v) for a non-negative v
RECURSIVE Decimal(_)
Decimal(v) == IF v < 10 THEN Digit(v) ELSE Decimal(v \div 10) \o Digit(v % 10)

\* the commands the switch has a case for
KnownCommands ==
    {CMD_STOP, CMD_FAN_SPEED, CMD_LIGHT_INT, CMD_LIGHT_DELAY, CMD_FAN_DIR}

\* variant: the direction test is a threshold instead of an exact match
value_stringThreshold(cmd, v) ==
    CASE cmd = CMD_STOP        -> "stop"
      [] cmd = CMD_FAN_SPEED   -> "speed " \o Decimal(v)
      [] cmd = CMD_LIGHT_INT   -> Decimal(v) \o " %"
      [] cmd = CMD_LIGHT_DELAY -> IF v = 0 THEN "off" ELSE "on"
      [] cmd = CMD_FAN_DIR     -> IF v >= 7 THEN "clockwise" ELSE "counter-clockwise"
      [] OTHER                 -> ""

\* char value_string[64] = {0}; switch (command) { ... sprintf ... }
value_string(cmd, v) ==
    CASE cmd = CMD_STOP        -> "stop"
      [] cmd = CMD_FAN_SPEED   -> "speed " \o Decimal(v)
      [] cmd = CMD_LIGHT_INT   -> Decimal(v) \o " %"
      [] cmd = CMD_LIGHT_DELAY -> IF v = 0 THEN "off" ELSE "on"
      [] cmd = CMD_FAN_DIR     -> IF v = 7 THEN "clockwise" ELSE "counter-clockwise"
      [] OTHER                 -> ""

\* default: if (debug_output > 1) { ...; continue; } break;
UnknownSkipped(cmd, debug_output) ==
    cmd \notin KnownCommands /\ debug_output > 1

\* data = data_make("model", ..., "mic", ..., NULL)
data_make(bytes) ==
    [ model   |-> "Regency-compatible Remote",
      type    |-> "Ceiling Fan",
      channel |-> channel(bytes),
      command |-> command_names[command(bytes) + 1],
      value   |-> value_string(command(bytes), value(bytes)),
      mic     |-> "nibble_sum" ]

\* ------------------------------------------------------------------------
\* Batches handed to the decoder
\* ------------------------------------------------------------------------

\* the 20-bit row as the frame source delivers it for the frame bytes
\* (b0, b1, b2): bit j of byte k travels, complemented, as row bit 8k+j
WireRow(b0, b1, b2) ==
    [p \in 1..NUM_BITS |->
        LET k == (p - 1) \div 8
            j == (p - 1) % 8
            b == IF k = 0 THEN b0 ELSE IF k = 1 THEN b1 ELSE b2
        IN  1 - BitOf(b, j)]

\* frame bytes of (command, channel, value) with the checksum nibble off by d
Frame(c, ch, v, d) ==
    LET b0 == 16 * c + (15 - ch)
        s  == ((b0 \div 16) + (b0 % 16) + (v \div 16) + (v % 16) + d) % 16
    IN  WireRow(b0, v, s)

SampleCommands == {0, 1, 2, 3, 4, 5, 6, 7, 15}

\* rows of the right length: good and bad checksums
SampleFrames ==
    { Frame(c, 5, 7, 0) : c \in SampleCommands }
    \cup { Frame(c, 0, 0, 0) : c \in {2, 5, 6, 9} }
    \cup { Frame(c, 5, 7, d) : c \in {0, 2, 6}, d \in {1, 15} }

\* rows of the wrong length: empty, one bit short, one bit long
SampleMalformed ==
    { << >>,
      SubSeq(Frame(2, 5, 7, 0), 1, NUM_BITS - 1),
      Frame(2, 5, 7, 0) \o <<0>>,
      Frame(4, 5, 7, 0) \o <<1>>,
      Frame(2, 5, 7, 0) \o Frame(2, 5, 7, 0) }

SampleRows == SampleFrames \cup SampleMalformed

Batches == UNION { [1..n -> SampleRows] : n \in 0..MaxRows }

\* every command, channel and value of the set, checksum nibble off by d in D
Frames(C, CH, V, D) ==
    { Frame(c, ch, v, d) : c \in C, ch \in CH, v \in V, d \in D }

SampleNibbles == {0, 1, 7, 8, 15}

\* ------------------------------------------------------------------------
\* State
\* ------------------------------------------------------------------------
VARIABLES
    input,         \* the batch as the frame source delivered it
    verbose,       \* decoder->verbose
    bitbuffer,     \* bitbuffer->bb with bits_per_row as the rows' lengths
    index,         \* row index of the loop, 1-based
    return_code,   \* return_code
    out,           \* records handed to decoder_output_data: [row, data]
    pc             \* "call", "loop", "done"

vars == << input, verbose, bitbuffer, index, return_code, out, pc >>

InitWith(batches) ==
    /\ input \in batches
    /\ verbose \in 0..MaxVerbose
    /\ bitbuffer = input
    /\ index = 1
    /\ return_code = 0
    /\ out = << >>
    /\ pc = "call"

Init == InitWith(Batches)

\* single-row batches: every command, channel and value with a good checksum,
\* a sample of the payload nibbles with every checksum nibble, the rows of the
\* wrong length; and the batch without rows
InitFull ==
    \/ InitWith({ << >> })
    \/ InitWith({ << r >> : r \in Frames(0..15, 0..15, 0..255, {0}) })
    \/ InitWith({ << r >> : r \in Frames(SampleNibbles, SampleNibbles,
                                 { 16 * h + l : h, l \in SampleNibbles }, 0..15) })
    \/ InitWith({ << r >> : r \in SampleMalformed })

\* if (bitbuffer->num_rows < 1) return 0;
NoRows ==
    /\ pc = "call"
    /\ Len(bitbuffer) < 1
    /\ pc' = "done"
    /\ UNCHANGED << input, verbose, bitbuffer, index, return_code, out >>

\* bitbuffer_invert(bitbuffer); enter the loop at the first row
Invert ==
    /\ pc = "call"
    /\ Len(bitbuffer) >= 1
    /\ bitbuffer' = bitbuffer_invert(bitbuffer)
    /\ index' = 1
    /\ pc' = "loop"
    /\ UNCHANGED << input, verbose, return_code, out >>

InLoop == pc = "loop" /\ index <= Len(bitbuffer)

\* variant: a row of the wrong length ends the loop (break for continue)
SkipLengthBreak ==
    /\ InLoop
    /\ Len(bitbuffer[index]) # NUM_BITS
    /\ index' = Len(bitbuffer) + 1
    /\ UNCHANGED << input, verbose, bitbuffer, return_code, out, pc >>

\* if (num_bits != NUM_BITS) continue;
SkipLength ==
    /\ InLoop
    /\ Len(bitbuffer[index]) # NUM_BITS
    /\ index' = index + 1
    /\ UNCHANGED << input, verbose, bitbuffer, return_code, out, pc >>

\* if (checksum != bytes[SUM_BYTE]) continue;
SkipChecksum ==
    /\ InLoop
    /\ Len(bitbuffer[index]) = NUM_BITS
    /\ ~ChecksumOk(FrameBytes(bitbuffer[index]))
    /\ index' = index + 1
    /\ UNCHANGED << input, verbose, bitbuffer, return_code, out, pc >>

\* default: if (debug_output > 1) continue;
SkipUnknown ==
    /\ InLoop
    /\ Len(bitbuffer[index]) = NUM_BITS
    /\ LET bytes == FrameBytes(bitbuffer[index])
       IN  /\ ChecksumOk(bytes)
           /\ UnknownSkipped(command(bytes), verbose)
    /\ index' = index + 1
    /\ UNCHANGED << input, verbose, bitbuffer, return_code, out, pc >>

\* variant: return_code is set in the cases of the switch only, so a record
\* that leaves through the default case does not raise it
EmitFlagInCases ==
    /\ InLoop
    /\ Len(bitbuffer[index]) = NUM_BITS
    /\ LET bytes == FrameBytes(bitbuffer[index])
       IN  /\ ChecksumOk(bytes)
           /\ ~UnknownSkipped(command(bytes), verbose)
           /\ out' = Append(out, [row |-> index, data |-> data_make(bytes)])
           /\ return_code' = IF command(bytes) \in KnownCommands
                             THEN 1 ELSE return_code
    /\ index' = index + 1
    /\ UNCHANGED << input, verbose, bitbuffer, pc >>

\* return_code = 1; data = data_make(...); decoder_output_data(decoder, data);
Emit ==
    /\ InLoop
    /\ Len(bitbuffer[index]) = NUM_BITS
    /\ LET bytes == FrameBytes(bitbuffer[index])
       IN  /\ ChecksumOk(bytes)
           /\ ~UnknownSkipped(command(bytes), verbose)
           /\ out' = Append(out, [row |-> index, data |-> data_make(bytes)])
    /\ return_code' = 1
    /\ index' = index + 1
    /\ UNCHANGED << input, verbose, bitbuffer, pc >>

\* the loop ends; return return_code;
Return ==
    /\ pc = "loop"
    /\ index > Len(bitbuffer)
    /\ pc' = "done"
    /\ UNCHANGED << input, verbose, bitbuffer, index, return_code, out >>

Next ==
    \/ NoRows
    \/ Invert
    \/ SkipLength
    \/ SkipChecksum
    \/ SkipUnknown
    \/ Emit
    \/ Return

Spec == Init /\ [][Next]_vars

SpecFull == InitFull /\ [][Next]_vars

\* ------------------------------------------------------------------------
\* The whole call as a function of the batch and the verbosity
\* ------------------------------------------------------------------------

\* for (index = 0; index < num_rows; index++) { ... }: the records of the
\* rows i, i+1, ... in order
RECURSIVE DecodeRows(_, _, _)
DecodeRows(bb, i, debug_output) ==
    IF i > Len(bb) THEN << >>
    ELSE IF Len(bb[i]) # NUM_BITS
         THEN DecodeRows(bb, i + 1, debug_output)
    ELSE LET bytes == FrameBytes(bb[i])
         IN  IF ~ChecksumOk(bytes) \/ UnknownSkipped(command(bytes), debug_output)
             THEN DecodeRows(bb, i + 1, debug_output)
             ELSE << data_make(bytes) >> \o DecodeRows(bb, i + 1, debug_output)

\* regency_fan_decode(decoder, bitbuffer): the records it emits and its result
regency_fan_decode(bb, debug_output) ==
    IF Len(bb) < 1
    THEN [records |-> << >>, result |-> 0]
    ELSE LET recs == DecodeRows(bitbuffer_invert(bb), 1, debug_output)
         IN  [records |-> recs, result |-> IF Len(recs) >= 1 THEN 1 ELSE 0]

\* ------------------------------------------------------------------------
\* The frame layout, read off the bits of a row as the loop sees it
\* ------------------------------------------------------------------------

\* nibble n of a row: row bits 4n .. 4n+3, the first one least significant
Nib(row, n) ==
    row[4 * n + 1] + 2 * row[4 * n + 2] + 4 * row[4 * n + 3] + 8 * row[4 * n + 4]

RowCommand(row) == Nib(row, 1)
RowChannelCode(row) == Nib(row, 0)
RowValue(row) == Nib(row, 2) + 16 * Nib(row, 3)
RowSum(row) == Nib(row, 4)

NibbleSum(row) == Nib(row, 0) + Nib(row, 1) + Nib(row, 2) + Nib(row, 3)

SumMatches(row) == NibbleSum(row) % 16 = RowSum(row)

\* right length and matching nibble sum
Validated(row) == Len(row) = 20 /\ SumMatches(row)

DefinedCommands == {1, 2, 4, 5, 6}

\* the rows that have a record in out
RecordRows == { out[i].row : i \in DOMAIN out }

\* the records of out without their row numbers
OutData == [i \in DOMAIN out |-> out[i].data]

\* ------------------------------------------------------------------------
\* Claims
\* ------------------------------------------------------------------------

\* C1: a validated row whose command code is none of 1, 2, 4, 5, 6 never
\* yields a record, whatever the verbosity.
C1_NoRecordForUnknownCommand ==
    \A i \in DOMAIN out :
        RowCommand(bitbuffer[out[i].row]) \in DefinedCommands

\* C2: every record comes from a row of exactly 20 bits whose nibble sum
\* equals its checksum nibble.
C2_RecordsOnlyFromValidatedRows ==
    \A i \in DOMAIN out :
        /\ out[i].row \in DOMAIN bitbuffer
        /\ Validated(bitbuffer[out[i].row])

C2_Witness ==
    /\ pc = "done"
    /\ Len(out) >= 1
    /\ \E k \in DOMAIN bitbuffer :
          Len(bitbuffer[k]) = 20 /\ ~SumMatches(bitbuffer[k])

\* C3: the call returns 1 exactly when it emitted at least one record; a
\* batch without rows, or without a validated row, gives no record and 0.
C3_SuccessIffRecord ==
    /\ return_code \in {0, 1}
    /\ (return_code = 1) <=> (Len(out) >= 1)
    /\ (pc = "done" /\ \A k \in DOMAIN bitbuffer : ~Validated(bitbuffer[k]))
          => (out = << >> /\ return_code = 0)

C3_Witness ==
    /\ pc = "done"
    /\ return_code = 1
    /\ Len(out) = 1
    /\ Len(input) = 2
    /\ RowCommand(bitbuffer[out[1].row]) \notin DefinedCommands

\* whether a row yields a record: a matter of the row and the verbosity only
Yields(row, debug_output) ==
    /\ Validated(row)
    /\ (RowCommand(row) \in DefinedCommands \/ debug_output <= 1)

\* C4: rows are decoded independently.  When the call returns, the rows with
\* a record are exactly those that yield one by their own bits, each has
\* exactly one record, the records follow the order of their rows, each
\* record is the decoding of its own row, equal rows give equal records, and
\* a valid row next to a malformed one gives one record and success.
C4_RowsIndependent ==
    pc = "done" =>
        /\ RecordRows = { k \in DOMAIN bitbuffer : Yields(bitbuffer[k], verbose) }
        /\ \A i, j \in DOMAIN out : i < j => out[i].row < out[j].row
        /\ \A i \in DOMAIN out :
              out[i].data = data_make(FrameBytes(bitbuffer[out[i].row]))
        /\ \A i, j \in DOMAIN out :
              input[out[i].row] = input[out[j].row] => out[i].data = out[j].data
        /\ \A k \in DOMAIN bitbuffer :
              (Validated(bitbuffer[k]) /\ RowCommand(bitbuffer[k]) \in DefinedCommands)
                  => Cardinality({ i \in DOMAIN out : out[i].row = k }) = 1
        /\ \A k, m \in DOMAIN bitbuffer :
              ( /\ Len(bitbuffer) = 2
                /\ Validated(bitbuffer[k])
                /\ RowCommand(bitbuffer[k]) \in DefinedCommands
                /\ ~Validated(bitbuffer[m]) )
                  => (Len(out) = 1 /\ return_code = 1)

C4_Witness ==
    /\ pc = "done"
    /\ Len(bitbuffer) = 2
    /\ ~Validated(bitbuffer[1])
    /\ Validated(bitbuffer[2])
    /\ RowCommand(bitbuffer[2]) \in DefinedCommands
    /\ Len(out) = 1
    /\ out[1].row = 2

\* C7: the records and the result of a call are those of the same call at
\* any other verbosity.
C7_VerbosityIndependent ==
    pc = "done" =>
        \A d \in 0..MaxVerbose :
            regency_fan_decode(input, d) = [records |-> OutData, result |-> return_code]

\* the names of output_fields
DeclaredFields == { output_fields[k] : k \in DOMAIN output_fields }

\* C8: every record has exactly the fields model, type, channel, command,
\* value and mic, and each of them is declared in output_fields.
C8_FieldsDeclared ==
    \A i \in DOMAIN out :
        /\ DOMAIN out[i].data = {"model", "type", "channel", "command", "value", "mic"}
        /\ out[i].data.mic = "nibble_sum"
        /\ DOMAIN out[i].data \subseteq DeclaredFields

\* the dispatch table of the command formatter
TableCategory(c) ==
    CASE c = 1 -> "fan_speed"
      [] c = 2 -> "fan_speed"
      [] c = 4 -> "light_intensity"
      [] c = 5 -> "light_delay"
      [] c = 6 -> "fan_direction"
      [] OTHER -> "invalid"

TableValue(c, v) ==
    CASE c = 1 -> "stop"
      [] c = 2 -> "speed " \o ToString(v)
      [] c = 4 -> ToString(v) \o " %"
      [] c = 5 -> IF v = 0 THEN "off" ELSE "on"
      [] c = 6 -> IF v = 7 THEN "clockwise" ELSE "counter-clockwise"
      [] OTHER -> ""

\* the nibble sum of the first two frame bytes, masked to four bits
GateSum(b) == ((b[1] \div 16) + (b[1] % 16) + (b[2] \div 16) + (b[2] % 16)) % 16

\* C5: the record of a validated row with command 1, 2, 4, 5 or 6 and value
\* byte v carries the category and the value string of the dispatch table;
\* the delay and direction tests are exact matches.
C5_DispatchTable ==
    \A i \in DOMAIN out :
        LET b == FrameBytes(bitbuffer[out[i].row])
            c == b[1] \div 16
            v == b[2]
            d == out[i].data
        IN  /\ c = 1 => (d.command = "fan_speed" /\ d.value = "stop")
            /\ c = 2 => (d.command = "fan_speed" /\ d.value = "speed " \o ToString(v))
            /\ c = 4 => (d.command = "light_intensity" /\ d.value = ToString(v) \o " %")
            /\ c = 5 => ( /\ d.command = "light_delay"
                          /\ (v = 0 => d.value = "off")
                          /\ (v # 0 => d.value = "on") )
            /\ c = 6 => ( /\ d.command = "fan_direction"
                          /\ (v = 7 => d.value = "clockwise")
                          /\ (v # 7 => d.value = "counter-clockwise") )

C5_Witness ==
    \E i \in DOMAIN out :
        /\ FrameBytes(bitbuffer[out[i].row])[1] \div 16 = 6
        /\ FrameBytes(bitbuffer[out[i].row])[2] = 8
        /\ out[i].data.command = "fan_direction"
        /\ out[i].data.value = "counter-clockwise"

\* C6: a frame built from command c in {1,2,4,5,6}, channel ch and value v
\* as byte0 = (c << 4) | (~ch & 0x0F), byte1 = v, byte2 = the masked nibble
\* sum decodes to a record whose channel is ch (the complement of byte 0's
\* low nibble, in 0..15), whose category is that of c and whose value is
\* rendered from v; c=2, ch=5, v=7 gives channel 5, "fan_speed", "speed 7".
C6_RoundTrip ==
    /\ \A i \in DOMAIN out :
          LET b == FrameBytes(bitbuffer[out[i].row])
              c == b[1] \div 16
              d == out[i].data
          IN  c \in DefinedCommands =>
                  /\ d.channel \in 0..15
                  /\ d.channel = 15 - (b[1] % 16)
                  /\ b[1] = 16 * c + ((255 - d.channel) % 16)
                  /\ d.command = TableCategory(c)
                  /\ d.value = TableValue(c, b[2])
                  /\ b = << 42, 7, 3 >>
                        => (d.channel = 5 /\ d.command = "fan_speed"
                            /\ d.value = "speed 7")
    /\ pc = "done" =>
          \A k \in DOMAIN bitbuffer :
              ( /\ Len(bitbuffer[k]) = 20
                /\ FrameBytes(bitbuffer[k])[1] \div 16 \in DefinedCommands
                /\ FrameBytes(bitbuffer[k])[3] = GateSum(FrameBytes(bitbuffer[k])) )
                  => k \in RecordRows

C6_Witness ==
    \E i \in DOMAIN out :
        /\ FrameBytes(bitbuffer[out[i].row]) = << 42, 7, 3 >>
        /\ out[i].data.channel = 5
        /\ out[i].data.command = "fan_speed"
        /\ out[i].data.value = "speed 7"

\* C9: a row of 20 bits passes the checksum gate exactly when the masked
\* nibble sum of frame bytes 0 and 1 equals the low nibble of frame byte 2:
\* the step taken on it is the checksum rejection exactly when they differ,
\* and a record or the unknown-command skip exactly when they agree; the high
\* nibble of frame byte 2 is clear and rejects nothing.
C9_ChecksumGate ==
    [][ (InLoop /\ Len(bitbuffer[index]) = NUM_BITS) =>
            LET b == FrameBytes(bitbuffer[index])
            IN  /\ b[3] \div 16 = 0
                /\ SkipChecksum <=> (GateSum(b) # b[3] % 16)
                /\ (Emit \/ SkipUnknown) <=> (GateSum(b) = b[3] % 16) ]_vars

C9_Witness ==
    \E i \in DOMAIN out :
        /\ NibbleSum(bitbuffer[out[i].row]) >= 16
        /\ NibbleSum(bitbuffer[out[i].row]) % 16 = RowSum(bitbuffer[out[i].row])

\* every bit of a row complemented
Complement(row) == [j \in DOMAIN row |-> 1 - row[j]]

\* the first 20 bits of a row in 3 bytes, row bit 8k+j as bit j of byte k,
\* the 4 bits left over clear
PackedReflected(row) ==
    << Nib(row, 0) + 16 * Nib(row, 1), Nib(row, 2) + 16 * Nib(row, 3), Nib(row, 4) >>

\* C10 as stated: the frame bytes are the bits of the delivered row, packed
\* and reflected with nothing else done to them, and decoding leaves the
\* delivered rows as they were.
C10_FrameBytesOfDeliveredRow ==
    /\ bitbuffer = input
    /\ (InLoop /\ Len(bitbuffer[index]) = NUM_BITS) =>
          FrameBytes(bitbuffer[index]) = PackedReflected(input[index])

\* C10 amended: the frame bytes are the complemented bits of the delivered
\* row, packed into 3 bytes (4 clear padding bits) and reflected within each
\* byte; a call on a batch with rows leaves every row of the bitbuffer
\* complemented, its length unchanged.
C10_FrameBytesOfComplementedRow ==
    /\ pc = "call" => bitbuffer = input
    /\ pc # "call" =>
          /\ Len(bitbuffer) = Len(input)
          /\ \A k \in DOMAIN input : bitbuffer[k] = Complement(input[k])
    /\ (InLoop /\ Len(bitbuffer[index]) = NUM_BITS) =>
          FrameBytes(bitbuffer[index]) = PackedReflected(Complement(input[index]))

C10_Witness ==
    /\ InLoop
    /\ input[index] = << 1, 0, 1, 0, 1, 0, 1, 1, 0, 0, 0, 1, 1, 1, 1, 1, 0, 0, 1, 1 >>
    /\ FrameBytes(bitbuffer[index]) = << 42, 7, 3 >>

TypeOK ==
    /\ pc \in {"call", "loop", "done"}
    /\ verbose \in 0..MaxVerbose
    /\ index \in 1..(Len(bitbuffer) + 1)
    /\ return_code \in {0, 1}
    /\ Len(out) <= Len(bitbuffer)

====
